---- MODULE Spec2Model ----
(***************************************************************************)
(* Model of app.py, the UK House Price dashboard.                          *)
(*                                                                         *)
(* One script pass is: load_all_data() (memoized by st.cache_data), the    *)
(* sidebar (region select box, region filter, page radio) and one page     *)
(* branch, which melts df_region and renders charts.  Streamlit reruns     *)
(* the script from the top on every interaction.                           *)
(*                                                                         *)
(* A column name is the sequence of its '_'-separated parts, so that       *)
(* appending the suffix f'_{token}' is Append(name, token).  A file name   *)
(* is the sequence of its '-'-separated parts, so that                     *)
(* file.split("-")[0] is its first element.                                *)
(*                                                                         *)
(* A table is [vcols, rows]: vcols the sequence of non-key column names    *)
(* (a sequence, since pandas allows repeated column names), rows a         *)
(* sequence of [key, vals] with key = <<Date, Region_Name, Area_Code>>     *)
(* and vals aligned with vcols.                                            *)
(*                                                                         *)
(* pandas is modelled as of the 2.x series: merge raises MergeError only   *)
(* when the suffix makes a label collide inside ONE side; melt validates   *)
(* value_vars against the columns and lays its output out column by        *)
(* column.                                                                 *)
(***************************************************************************)
EXTENDS Integers, Sequences, FiniteSets, TLC

VARIABLES
    disk,             \* file index -> what is on disk for files[index]
    cache,            \* the st.cache_data entry of load_all_data
    snapshot,         \* history: the disk the cached entry was computed from
    changes,          \* history: number of source replacements so far
    pc,               \* position of the script pass
    i,                \* loop index of "for file in files[1:]"
    df_merged,        \* the running table inside load_all_data
    df,               \* module-level df of this pass
    diagnostics,      \* st.error elements shown in this pass
    reads,            \* history: indices of the files pd.read_csv opened in this pass
    selected_region,  \* value of the region select box in this pass
    df_region,        \* the region view of this pass
    page,             \* value of the page radio in this pass
    melts,            \* long-form tables produced by melt in this pass
    charts,           \* charts handed to st.altair_chart in this pass
    error             \* how the pass ended early, if it did

vars == <<disk, cache, snapshot, changes, pc, i, df_merged, df, diagnostics,
          reads, selected_region, df_region, page, melts, charts, error>>

\* Number of times a source file may be replaced on disk between passes.
MaxChanges == 1

None == [none |-> TRUE]

\* Missing value placed by the outer join (values of the extracts are >= 0).
NaN == -1

\* Result of a date string pd.to_datetime cannot parse.
NaT == -1

Range(s) == {s[n] : n \in DOMAIN s}

IsUnique(s) == \A m, n \in DOMAIN s : s[m] = s[n] => m = n

RECURSIVE Flatten(_)
Flatten(ss) == IF ss = <<>> THEN <<>> ELSE Head(ss) \o Flatten(Tail(ss))

(***************************************************************************)
(* The source list and the key                                             *)
(***************************************************************************)
files ==
    << <<"Average", "prices", "Property", "Type", "2025", "06.csv">>,
       <<"Cash", "mortgage", "sales", "2025", "06.csv">>,
       <<"First", "Time", "Buyer", "Former", "Owner", "Occupied", "2025", "06.csv">>,
       <<"Indices", "2025", "06.csv">>,
       <<"Indices", "seasonally", "adjusted", "2025", "06.csv">>,
       <<"New", "and", "Old", "2025", "06.csv">>,
       <<"Sales", "2025", "06.csv">> >>

merge_keys == << <<"Date">>, <<"Region", "Name">>, <<"Area", "Code">> >>

\* file.split("-")[0]
Token(file) == file[1]

\* f'_{file.split("-")[0]}' appended to a column name
WithSuffix(name, file) == Append(name, Token(file))

(***************************************************************************)
(* Value-column lists of the pages                                         *)
(***************************************************************************)
price_cols ==
    << <<"Detached", "Average", "Price">>, <<"Semi", "Detached", "Average", "Price">>,
       <<"Terraced", "Average", "Price">>, <<"Flat", "Average", "Price">> >>

buyer_cols ==
    << <<"First", "Time", "Buyer", "Average", "Price">>,
       <<"Former", "Owner", "Occupier", "Average", "Price">> >>

purchase_cols ==
    << <<"Cash", "Average", "Price">>, <<"Mortgage", "Average", "Price">> >>

build_cols ==
    << <<"New", "Build", "Average", "Price">>,
       <<"Existing", "Property", "Average", "Price">> >>

sales_cols ==
    << <<"Cash", "Sales", "Volume">>, <<"Mortgage", "Sales", "Volume">>,
       <<"New", "Build", "Sales", "Volume">>,
       <<"Existing", "Property", "Sales", "Volume">> >>

total_col == <<"Sales", "Volume">>

pages == {"Data Overview", "Property Type Comparison", "Buyer Type Comparison",
          "New vs. Existing Builds", "Sales Volume Analysis"}

(***************************************************************************)
(* What can be on disk.  An extract is the result of pd.read_csv: its      *)
(* Date column still holds strings.                                        *)
(***************************************************************************)
Missing == [kind |-> "missing", vcols |-> <<>>, rows |-> <<>>]

Csv(vcols, rows) == [kind |-> "csv", vcols |-> vcols, rows |-> rows]

UK(date) == <<date, "United Kingdom", "K02000001">>

England(date) == <<date, "England", "E92000001">>

\* Cell values: distinct per (file, row, column).
Cells(f, r, n) == [c \in 1..n |-> 100 * f + 10 * r + c]

Row(key, f, r, n) == [key |-> key, vals |-> Cells(f, r, n)]

Extracts(f) ==
    CASE f = 1 ->
           { Missing,
             Csv(price_cols \o << <<"Index">> >>,
                 << Row(UK("2025-06-01"), 1, 1, 5), Row(England("2025-06-01"), 1, 2, 5) >>),
             Csv(price_cols \o << <<"Index">> >>,
                 << Row(UK("n/a"), 1, 1, 5) >>) }
      [] f = 2 ->
           { Missing,
             Csv(purchase_cols \o SubSeq(sales_cols, 1, 2),
                 << Row(UK("2025-06-01"), 2, 1, 4), Row(UK("2025-05-01"), 2, 2, 4) >>) }
      [] f = 3 ->
           { Missing,
             Csv(buyer_cols,
                 << Row(UK("2025-06-01"), 3, 1, 2), Row(UK("2025-06-01"), 3, 2, 2) >>) }
      [] f = 4 ->
           { Missing,
             Csv(<< <<"Index">> >>, << Row(England("2025-06-01"), 4, 1, 1) >>),
             Csv(<< <<"Index">> >>, << Row(England("n/a"), 4, 1, 1) >>) }
      [] f = 5 ->
           { Missing,
             Csv(<< <<"Index">> >>, << Row(England("2025-06"), 5, 1, 1) >>) }
      [] f = 6 ->
           { Missing,
             Csv(build_cols \o SubSeq(sales_cols, 3, 4),
                 << Row(UK("2025-06-01"), 6, 1, 4) >>) }
      [] f = 7 ->
           { Missing,
             Csv(<< total_col >>,
                 << Row(UK("2025-05-01"), 7, 1, 1), Row(UK("2025-06-01"), 7, 2, 1),
                    Row(UK("2025-06-01"), 7, 3, 1) >>) }

(***************************************************************************)
(* pd.to_datetime on the Date column                                       *)
(***************************************************************************)
ParseDate(s) ==
    CASE s = "2025-05-01" -> 20250501
      [] s = "2025-06-01" -> 20250601
      [] s = "2025-06"    -> 20250601
      [] OTHER            -> NaT

\* df['Date'] = pd.to_datetime(df['Date']); raises when a value does not parse
DateParses(t) == \A n \in DOMAIN t.rows : ParseDate(t.rows[n].key[1]) # NaT

to_datetime(t) ==
    [vcols |-> t.vcols,
     rows  |-> [n \in DOMAIN t.rows |->
                  [key  |-> <<ParseDate(t.rows[n].key[1]), t.rows[n].key[2], t.rows[n].key[3]>>,
                   vals |-> t.rows[n].vals]]]

\* pd.read_csv(file) finds the file
Found(c) == c.kind = "csv"

\* read_csv and to_datetime both succeed
Loadable(c) == Found(c) /\ DateParses(c)

(***************************************************************************)
(* pd.merge(left, right, on=merge_keys, how='outer', suffixes=('', sfx))   *)
(***************************************************************************)
\* Lexicographic rank of the strings that occur in keys.
StrRank(s) ==
    CASE s = "E92000001"      -> 1
      [] s = "England"        -> 2
      [] s = "K02000001"      -> 3
      [] s = "United Kingdom" -> 4
      [] OTHER                -> 5

KeyLess(a, b) ==
    \/ a[1] < b[1]
    \/ a[1] = b[1] /\ StrRank(a[2]) < StrRank(b[2])
    \/ a[1] = b[1] /\ a[2] = b[2] /\ StrRank(a[3]) < StrRank(b[3])

RECURSIVE SortKeys(_)
SortKeys(S) ==
    IF S = {} THEN <<>>
    ELSE LET m == CHOOSE k \in S : \A o \in S \ {k} : KeyLess(k, o)
         IN  <<m>> \o SortKeys(S \ {m})

KeySet(t) == {t.rows[n].key : n \in DOMAIN t.rows}

RowsWith(t, k) == SelectSeq(t.rows, LAMBDA r : r.key = k)

NaNs(n) == [c \in 1..n |-> NaN]

\* Labels of the right side: a label that also occurs on the left gets the
\* suffix, the others keep their name.  The left suffix is '', so the left
\* labels are unchanged.
RightLabels(left, right, file) ==
    [c \in DOMAIN right.vcols |->
        IF right.vcols[c] \in Range(left.vcols)
        THEN WithSuffix(right.vcols[c], file) ELSE right.vcols[c]]

\* MergeError: the suffix produced a repeated label within the right side.
MergeRaises(left, right, file) == ~IsUnique(RightLabels(left, right, file))

\* JoinKey as a join that pairs each left row with the first matching right
\* row only.
JoinKey_first(left, right, k) ==
    LET L  == RowsWith(left, k)
        R  == RowsWith(right, k)
        nl == Len(left.vcols)
        nr == Len(right.vcols)
    IN  IF L # <<>> /\ R # <<>>
        THEN [n \in 1..Len(L) |-> [key |-> k, vals |-> L[n].vals \o R[1].vals]]
        ELSE IF R = <<>>
        THEN [n \in 1..Len(L) |-> [key |-> k, vals |-> L[n].vals \o NaNs(nr)]]
        ELSE [n \in 1..Len(R) |-> [key |-> k, vals |-> NaNs(nl) \o R[n].vals]]

\* Rows of the outer join for one key: the cross product of the two sides'
\* rows for it, or the rows of the only side that has it padded with NaN.
JoinKey(left, right, k) ==
    LET L  == RowsWith(left, k)
        R  == RowsWith(right, k)
        nl == Len(left.vcols)
        nr == Len(right.vcols)
    IN  IF L # <<>> /\ R # <<>>
        THEN [n \in 1..(Len(L) * Len(R)) |->
                 [key  |-> k,
                  vals |-> L[((n - 1) \div Len(R)) + 1].vals \o R[((n - 1) % Len(R)) + 1].vals]]
        ELSE IF R = <<>>
        THEN [n \in 1..Len(L) |-> [key |-> k, vals |-> L[n].vals \o NaNs(nr)]]
        ELSE [n \in 1..Len(R) |-> [key |-> k, vals |-> NaNs(nl) \o R[n].vals]]

\* JoinRows with how='left': only the keys of the left side.
JoinRows_left(left, right) ==
    LET ks == SortKeys(KeySet(left))
    IN  Flatten([n \in DOMAIN ks |-> JoinKey(left, right, ks[n])])

JoinRows(left, right) ==
    LET ks == SortKeys(KeySet(left) \cup KeySet(right))
    IN  Flatten([n \in DOMAIN ks |-> JoinKey(left, right, ks[n])])

merge(left, right, file) ==
    [vcols |-> left.vcols \o RightLabels(left, right, file),
     rows  |-> JoinRows(left, right)]

(***************************************************************************)
(* load_all_data                                                           *)
(***************************************************************************)
NotFoundMsg(f) == [text |-> "not found", file |-> files[f]]

MergingMsg(f) == [text |-> "merging", file |-> files[f]]

\* CacheHit without memoization.
CacheHit_never == FALSE

\* CacheHit with an entry keyed by the content of the sources.
CacheHit_keyed == cache # None /\ snapshot = disk

\* @st.cache_data on a function without arguments: one entry, looked up by
\* the function alone.
CacheHit == cache # None

Init ==
    /\ \E c1 \in Extracts(1), c2 \in Extracts(2), c3 \in Extracts(3), c4 \in Extracts(4),
          c5 \in Extracts(5), c6 \in Extracts(6), c7 \in Extracts(7) :
          disk = <<c1, c2, c3, c4, c5, c6, c7>>
    /\ cache = None
    /\ snapshot = None
    /\ changes = 0
    /\ pc = "call"
    /\ i = 0
    /\ df_merged = None
    /\ df = None
    /\ diagnostics = <<>>
    /\ reads = <<>>
    /\ selected_region = "None"
    /\ df_region = None
    /\ page = "None"
    /\ melts = <<>>
    /\ charts = <<>>
    /\ error = None

\* Streamlit reruns the script after a widget interaction: the script's
\* names are fresh, the cache and the files are what they were.
Rerun ==
    /\ pc = "idle"
    /\ pc' = "call"
    /\ i' = 0
    /\ df_merged' = None
    /\ df' = None
    /\ diagnostics' = <<>>
    /\ reads' = <<>>
    /\ selected_region' = "None"
    /\ df_region' = None
    /\ page' = "None"
    /\ melts' = <<>>
    /\ charts' = <<>>
    /\ error' = None
    /\ UNCHANGED <<disk, cache, snapshot, changes>>

\* Between two passes a source file is replaced, removed or created.
ReplaceSource ==
    /\ pc = "idle"
    /\ changes < MaxChanges
    /\ \E f \in DOMAIN files : \E c \in Extracts(f) \ {disk[f]} :
          disk' = [disk EXCEPT ![f] = c]
    /\ changes' = changes + 1
    /\ UNCHANGED <<cache, snapshot, pc, i, df_merged, df, diagnostics, reads,
                   selected_region, df_region, page, melts, charts, error>>

\* df = load_all_data() with an entry in the cache: the stored value and the
\* st.error elements recorded with it are replayed, the body does not run.
LoadCached ==
    /\ pc = "call"
    /\ CacheHit
    /\ df' = cache.value
    /\ diagnostics' = cache.messages
    /\ pc' = "sidebar"
    /\ UNCHANGED <<disk, cache, snapshot, changes, i, df_merged, reads,
                   selected_region, df_region, page, melts, charts, error>>

\* df = load_all_data() without an entry: the body starts.
LoadCompute ==
    /\ pc = "call"
    /\ ~CacheHit
    /\ pc' = "first"
    /\ UNCHANGED <<disk, cache, snapshot, changes, i, df_merged, df, diagnostics,
                   reads, selected_region, df_region, page, melts, charts, error>>

\* try: df_merged = pd.read_csv(files[0]); to_datetime
FirstLoaded ==
    /\ pc = "first"
    /\ Loadable(disk[1])
    /\ reads' = Append(reads, 1)
    /\ df_merged' = to_datetime(disk[1])
    /\ i' = 2
    /\ pc' = "loop"
    /\ UNCHANGED <<disk, cache, snapshot, changes, df, diagnostics,
                   selected_region, df_region, page, melts, charts, error>>

\* FirstNotFound without st.stop(): the loop goes on from an empty table.
FirstNotFound_continue ==
    /\ pc = "first"
    /\ ~Found(disk[1])
    /\ reads' = Append(reads, 1)
    /\ diagnostics' = Append(diagnostics, NotFoundMsg(1))
    /\ df_merged' = [vcols |-> <<>>, rows |-> <<>>]
    /\ i' = 2
    /\ pc' = "loop"
    /\ UNCHANGED <<disk, cache, snapshot, changes, df, error,
                   selected_region, df_region, page, melts, charts>>

\* except FileNotFoundError: st.error(...); st.stop()
FirstNotFound ==
    /\ pc = "first"
    /\ ~Found(disk[1])
    /\ reads' = Append(reads, 1)
    /\ diagnostics' = Append(diagnostics, NotFoundMsg(1))
    /\ error' = [at |-> "load_all_data", kind |-> "stop", names |-> <<>>]
    /\ pc' = "idle"
    /\ UNCHANGED <<disk, cache, snapshot, changes, i, df_merged, df,
                   selected_region, df_region, page, melts, charts>>

\* to_datetime raises on the first file: no handler, the exception leaves
\* load_all_data and ends the pass.
FirstRaises ==
    /\ pc = "first"
    /\ Found(disk[1])
    /\ ~DateParses(disk[1])
    /\ reads' = Append(reads, 1)
    /\ error' = [at |-> "load_all_data", kind |-> "exception", names |-> <<>>]
    /\ pc' = "idle"
    /\ UNCHANGED <<disk, cache, snapshot, changes, i, df_merged, df, diagnostics,
                   selected_region, df_region, page, melts, charts>>

\* One iteration of "for file in files[1:]" whose try block completes.
MergeNext ==
    /\ pc = "loop"
    /\ i <= Len(files)
    /\ Loadable(disk[i])
    /\ ~MergeRaises(df_merged, to_datetime(disk[i]), files[i])
    /\ reads' = Append(reads, i)
    /\ df_merged' = merge(df_merged, to_datetime(disk[i]), files[i])
    /\ i' = i + 1
    /\ UNCHANGED <<disk, cache, snapshot, changes, pc, df, diagnostics,
                   selected_region, df_region, page, melts, charts, error>>

\* One iteration ending in "except FileNotFoundError".
SkipNotFound ==
    /\ pc = "loop"
    /\ i <= Len(files)
    /\ ~Found(disk[i])
    /\ reads' = Append(reads, i)
    /\ diagnostics' = Append(diagnostics, NotFoundMsg(i))
    /\ i' = i + 1
    /\ UNCHANGED <<disk, cache, snapshot, changes, pc, df_merged, df,
                   selected_region, df_region, page, melts, charts, error>>

\* SkipRaises with a handler that leaves the loop.
SkipRaises_break ==
    /\ pc = "loop"
    /\ i <= Len(files)
    /\ Found(disk[i])
    /\ \/ ~DateParses(disk[i])
       \/ DateParses(disk[i]) /\ MergeRaises(df_merged, to_datetime(disk[i]), files[i])
    /\ reads' = Append(reads, i)
    /\ diagnostics' = Append(diagnostics, MergingMsg(i))
    /\ i' = Len(files) + 1
    /\ UNCHANGED <<disk, cache, snapshot, changes, pc, df_merged, df,
                   selected_region, df_region, page, melts, charts, error>>

\* One iteration ending in "except Exception as e".
SkipRaises ==
    /\ pc = "loop"
    /\ i <= Len(files)
    /\ Found(disk[i])
    /\ \/ ~DateParses(disk[i])
       \/ DateParses(disk[i]) /\ MergeRaises(df_merged, to_datetime(disk[i]), files[i])
    /\ reads' = Append(reads, i)
    /\ diagnostics' = Append(diagnostics, MergingMsg(i))
    /\ i' = i + 1
    /\ UNCHANGED <<disk, cache, snapshot, changes, pc, df_merged, df,
                   selected_region, df_region, page, melts, charts, error>>

\* return df_merged: st.cache_data stores the value with the recorded
\* st.error elements, and the caller's df is bound.
Return ==
    /\ pc = "loop"
    /\ i > Len(files)
    /\ cache' = [value |-> df_merged, messages |-> diagnostics]
    /\ snapshot' = disk
    /\ df' = df_merged
    /\ pc' = "sidebar"
    /\ UNCHANGED <<disk, changes, i, df_merged, diagnostics, reads,
                   selected_region, df_region, page, melts, charts, error>>

(***************************************************************************)
(* Sidebar: region select box, region filter, page radio                   *)
(***************************************************************************)
Regions(t) == {t.rows[n].key[2] : n \in DOMAIN t.rows}

RECURSIVE SortStrings(_)
SortStrings(S) ==
    IF S = {} THEN <<>>
    ELSE LET m == CHOOSE s \in S : \A o \in S \ {s} : StrRank(s) < StrRank(o)
         IN  <<m>> \o SortStrings(S \ {m})

\* sorted(df['Region_Name'].unique()) with "United Kingdom" moved to the front
all_regions(t) ==
    IF "United Kingdom" \in Regions(t)
    THEN <<"United Kingdom">> \o SortStrings(Regions(t) \ {"United Kingdom"})
    ELSE SortStrings(Regions(t))

\* df[df['Region_Name'] == selected_region].copy()
region_filter(t, region) ==
    [vcols |-> t.vcols, rows |-> SelectSeq(t.rows, LAMBDA r : r.key[2] = region)]

\* The select box yields one of its options (the user's choice), the radio
\* one of the pages; the region view is computed from the choice.
Sidebar ==
    /\ pc = "sidebar"
    /\ \E r \in Range(all_regions(df)) \cup (IF all_regions(df) = <<>> THEN {"None"} ELSE {}) :
          /\ selected_region' = r
          /\ df_region' = region_filter(df, r)
    /\ \E p \in pages : page' = p
    /\ pc' = "route"
    /\ UNCHANGED <<disk, cache, snapshot, changes, i, df_merged, df, diagnostics,
                   reads, melts, charts, error>>

(***************************************************************************)
(* DataFrame.melt(id_vars=['Date'], value_vars=..., var_name, value_name)  *)
(***************************************************************************)
Columns(t) == Range(merge_keys) \cup Range(t.vcols)

\* The requested labels that are not columns of the frame, in request order.
MissingVars(t, value_vars) == SelectSeq(value_vars, LAMBDA v : v \notin Columns(t))

\* Positions of the columns labelled v, left to right.
Positions(t, v) ==
    SelectSeq([c \in DOMAIN t.vcols |-> c], LAMBDA c : t.vcols[c] = v)

\* MeltRows laid out row by row: each input row with its columns in turn.
MeltRows_rowmajor(t, value_vars) ==
    LET pos == Flatten([n \in DOMAIN value_vars |-> Positions(t, value_vars[n])])
        N   == Len(t.rows)
        P   == Len(pos)
    IN  [n \in 1..(P * N) |->
           LET c == pos[((n - 1) % P) + 1]
               r == t.rows[((n - 1) \div P) + 1]
           IN  [Date |-> r.key[1], variable |-> t.vcols[c], value |-> r.vals[c]]]

\* MeltRows that drops the cells holding a missing value.
MeltRows_dropna(t, value_vars) ==
    LET pos == Flatten([n \in DOMAIN value_vars |-> Positions(t, value_vars[n])])
        N   == Len(t.rows)
    IN  SelectSeq([n \in 1..(Len(pos) * N) |->
                     LET c == pos[((n - 1) \div N) + 1]
                         r == t.rows[((n - 1) % N) + 1]
                     IN  [Date |-> r.key[1], variable |-> t.vcols[c], value |-> r.vals[c]]],
                  LAMBDA x : x.value # NaN)

\* The long-form rows: the selected columns one after the other, each with
\* the frame's rows in the frame's order.
MeltRows(t, value_vars) ==
    LET pos == Flatten([n \in DOMAIN value_vars |-> Positions(t, value_vars[n])])
        N   == Len(t.rows)
    IN  [n \in 1..(Len(pos) * N) |->
           LET c == pos[((n - 1) \div N) + 1]
               r == t.rows[((n - 1) % N) + 1]
           IN  [Date |-> r.key[1], variable |-> t.vcols[c], value |-> r.vals[c]]]

\* MeltRaises of a melt that ignores the labels it does not find.
MeltRaises_never(t, value_vars) == FALSE

\* melt raises KeyError listing the absent labels before it builds anything.
MeltRaises(t, value_vars) == MissingVars(t, value_vars) # <<>>

(***************************************************************************)
(* Page routing                                                            *)
(***************************************************************************)
\* df_region.melt(...) followed by alt.Chart(melted) and st.altair_chart.
MeltAndChart(value_vars, next) ==
    /\ IF MeltRaises(df_region, value_vars)
       THEN /\ error' = [at |-> "melt", kind |-> "KeyError",
                         names |-> MissingVars(df_region, value_vars)]
            /\ pc' = "idle"
            /\ UNCHANGED <<melts, charts>>
       ELSE /\ melts' = Append(melts, [value_vars |-> value_vars,
                                       rows |-> MeltRows(df_region, value_vars)])
            /\ charts' = Append(charts, [data |-> "melted", uses |-> value_vars])
            /\ pc' = next
            /\ UNCHANGED error
    /\ UNCHANGED <<disk, cache, snapshot, changes, i, df_merged, df, diagnostics,
                   reads, selected_region, df_region, page>>

DataOverview ==
    /\ pc = "route"
    /\ page = "Data Overview"
    /\ pc' = "idle"
    /\ UNCHANGED <<disk, cache, snapshot, changes, i, df_merged, df, diagnostics,
                   reads, selected_region, df_region, page, melts, charts, error>>

PropertyTypeComparison ==
    /\ pc = "route"
    /\ page = "Property Type Comparison"
    /\ MeltAndChart(price_cols, "idle")

BuyerTypeFirst ==
    /\ pc = "route"
    /\ page = "Buyer Type Comparison"
    /\ MeltAndChart(buyer_cols, "buyer2")

BuyerTypeSecond ==
    /\ pc = "buyer2"
    /\ MeltAndChart(purchase_cols, "idle")

NewVsExisting ==
    /\ pc = "route"
    /\ page = "New vs. Existing Builds"
    /\ MeltAndChart(build_cols, "idle")

\* chart_total is built on df_region itself; st.altair_chart serialises the
\* chart and Altair raises when the encoded field is not a column of the data.
SalesTotal ==
    /\ pc = "route"
    /\ page = "Sales Volume Analysis"
    /\ IF total_col \in Columns(df_region)
       THEN /\ charts' = Append(charts, [data |-> "df_region", uses |-> <<total_col>>])
            /\ pc' = "sales2"
            /\ UNCHANGED error
       ELSE /\ error' = [at |-> "altair_chart", kind |-> "ValueError",
                         names |-> <<total_col>>]
            /\ pc' = "idle"
            /\ UNCHANGED charts
    /\ UNCHANGED <<disk, cache, snapshot, changes, i, df_merged, df, diagnostics,
                   reads, selected_region, df_region, page, melts>>

SalesByType ==
    /\ pc = "sales2"
    /\ MeltAndChart(sales_cols, "idle")

Next ==
    \/ Rerun
    \/ ReplaceSource
    \/ LoadCached
    \/ LoadCompute
    \/ FirstLoaded
    \/ FirstNotFound
    \/ FirstRaises
    \/ MergeNext
    \/ SkipNotFound
    \/ SkipRaises
    \/ Return
    \/ Sidebar
    \/ DataOverview
    \/ PropertyTypeComparison
    \/ BuyerTypeFirst
    \/ BuyerTypeSecond
    \/ NewVsExisting
    \/ SalesTotal
    \/ SalesByType

Spec == Init /\ [][Next]_vars

TypeOK == pc \in {"call", "first", "loop", "sidebar", "route", "buyer2", "sales2", "idle"}

(***************************************************************************)
(* Reference notions used by the properties                                *)
(***************************************************************************)
LoadableFiles(d) == {f \in DOMAIN files : Loadable(d[f])}

SourceKeys(d) == UNION {KeySet(to_datetime(d[f])) : f \in LoadableFiles(d)}

CountKey(t, k) == Len(RowsWith(t, k))

\* Product over the loadable sources f..7 of the number of rows each has for
\* k, a source without k counting as 1.
RECURSIVE FanOut(_, _, _)
FanOut(d, k, f) ==
    IF f > Len(files) THEN 1
    ELSE LET n == IF Loadable(d[f]) THEN CountKey(to_datetime(d[f]), k) ELSE 0
         IN  (IF n = 0 THEN 1 ELSE n) * FanOut(d, k, f + 1)

RECURSIVE FoldMerge(_, _, _)
FoldMerge(t, d, fs) ==
    IF fs = <<>> THEN t
    ELSE FoldMerge(merge(t, to_datetime(d[Head(fs)]), files[Head(fs)]), d, Tail(fs))

\* The join of the sources of d that load, taken alone and in list order.
JoinOfLoadable(d) ==
    IF ~Loadable(d[1]) THEN None
    ELSE FoldMerge(to_datetime(d[1]), d,
                   SelectSeq([n \in 1..(Len(files) - 1) |-> n + 1], LAMBDA f : Loadable(d[f])))

\* The later sources of d that do not load, in list order.
FailingLater(d) ==
    SelectSeq([n \in 1..(Len(files) - 1) |-> n + 1], LAMBDA f : ~Loadable(d[f]))

\* The iteration about to run cannot read or merge files[i].
IterationFails ==
    /\ pc = "loop"
    /\ i <= Len(files)
    /\ \/ ~Loadable(disk[i])
       \/ MergeRaises(df_merged, to_datetime(disk[i]), files[i])

\* The value-column list of the melt call the pass is about to make.
MeltCall ==
    CASE pc = "route" /\ page = "Property Type Comparison" -> price_cols
      [] pc = "route" /\ page = "Buyer Type Comparison"    -> buyer_cols
      [] pc = "buyer2"                                     -> purchase_cols
      [] pc = "route" /\ page = "New vs. Existing Builds"  -> build_cols
      [] pc = "sales2"                                     -> sales_cols
      [] OTHER                                             -> <<>>

\* Position of the column labelled v in t.
ColOf(t, v) == CHOOSE c \in DOMAIN t.vcols : t.vcols[c] = v

\* The long-form record of the cell (row r, column v) of t.
Cell(t, r, v) ==
    [Date |-> t.rows[r].key[1], variable |-> v, value |-> t.rows[r].vals[ColOf(t, v)]]

\* Index of the label v in the list vv.
VarIdx(vv, v) == CHOOSE n \in DOMAIN vv : vv[n] = v

(***************************************************************************)
(* C1: the Key set of the table returned by load_all_data equals the       *)
(* union of the Key sets of the sources that load, whichever later         *)
(* sources were skipped.                                                   *)
(***************************************************************************)
C1_KeyUnion ==
    cache # None => KeySet(cache.value) = SourceKeys(snapshot)

\* A later source was skipped and a Key that only later sources hold is there.
C1_Witness ==
    /\ cache # None
    /\ cache.messages # <<>>
    /\ \E k \in KeySet(cache.value) : k \notin KeySet(to_datetime(snapshot[1]))

(***************************************************************************)
(* C2: with every source readable, each non-Key column of each source is   *)
(* in the returned table under a name no other column has, holding that    *)
(* source's values.                                                        *)
(***************************************************************************)
C2_DistinctColumns ==
    (cache # None /\ \A f \in DOMAIN files : Loadable(snapshot[f])) =>
        LET t == cache.value
        IN  /\ IsUnique(t.vcols)
            /\ Len(t.vcols) = Len(Flatten([f \in DOMAIN files |-> snapshot[f].vcols]))
            /\ \A f \in DOMAIN files : \A c \in DOMAIN snapshot[f].vcols :
                  \E j \in DOMAIN t.vcols :
                     /\ t.vcols[j] \in {snapshot[f].vcols[c], WithSuffix(snapshot[f].vcols[c], files[f])}
                     /\ \A r \in DOMAIN snapshot[f].rows :
                           \E n \in DOMAIN t.rows : t.rows[n].vals[j] = snapshot[f].rows[r].vals[c]

(***************************************************************************)
(* C3: an iteration whose source cannot be read or merged records exactly  *)
(* one diagnostic naming that source, leaves the running table as it was   *)
(* and goes on with the next source; the returned table is the join of     *)
(* the loadable sources alone, with one diagnostic per failing source.     *)
(***************************************************************************)
C3_SkipAndContinue ==
    /\ [][IterationFails =>
            /\ df_merged' = df_merged
            /\ Len(diagnostics') = Len(diagnostics) + 1
            /\ SubSeq(diagnostics', 1, Len(diagnostics)) = diagnostics
            /\ diagnostics'[Len(diagnostics')].file = files[i]
            /\ i' = i + 1
            /\ pc' = "loop"]_vars
    /\ [](cache # None =>
            /\ cache.value = JoinOfLoadable(snapshot)
            /\ [n \in DOMAIN cache.messages |-> cache.messages[n].file]
                 = [n \in DOMAIN FailingLater(snapshot) |-> files[FailingLater(snapshot)[n]]])

\* Two later sources failed, one of them on parsing, and a source after them
\* was still merged.
C3_Witness ==
    /\ cache # None
    /\ Len(cache.messages) >= 2
    /\ \E n \in DOMAIN cache.messages : cache.messages[n].text = "merging"
    /\ Loadable(snapshot[7])
    /\ total_col \in Range(cache.value.vcols)

(***************************************************************************)
(* C4: when the first source cannot be read the pass ends there: no later  *)
(* source is read, no table is returned, no cache entry is published and   *)
(* neither the region filter nor a melt runs.                              *)
(***************************************************************************)
C4_FirstSourceFatal ==
    /\ [][(pc = "first" /\ ~Loadable(disk[1])) =>
            /\ pc' = "idle"
            /\ error' # None
            /\ error'.at = "load_all_data"
            /\ reads' = <<1>>
            /\ df' = None
            /\ cache' = None]_vars
    /\ []((error # None /\ error.at = "load_all_data") =>
            /\ pc = "idle"
            /\ reads = <<1>>
            /\ df = None
            /\ cache = None
            /\ df_region = None
            /\ melts = <<>>
            /\ charts = <<>>)

C4_Witness ==
    /\ error # None
    /\ error.at = "load_all_data"
    /\ error.kind = "stop"
    /\ \E f \in 2..Len(files) : Loadable(disk[f])

(***************************************************************************)
(* C5: once a merge has completed, a later invocation returns the          *)
(* memoized table, identical to the first, and reads no source.            *)
(***************************************************************************)
C5_Idempotent ==
    [][(pc = "call" /\ cache # None) =>
         /\ pc' = "sidebar"
         /\ df' = cache.value
         /\ cache' = cache
         /\ reads' = <<>>
         /\ df_merged' = None]_vars

\* A rerun on unchanged sources was served from the cache.
C5_Witness ==
    /\ pc = "sidebar"
    /\ reads = <<>>
    /\ cache # None
    /\ df = cache.value
    /\ disk = snapshot

(***************************************************************************)
(* C6 as stated: whenever load_all_data returns, the table is the join of  *)
(* the sources as they currently are.                                      *)
(***************************************************************************)
C6_KeyedByContent ==
    pc = "sidebar" => df = JoinOfLoadable(disk)

(***************************************************************************)
(* C6 amended: the memoized result is keyed by the function alone.  Once   *)
(* an invocation has published its table the entry is never invalidated    *)
(* or recomputed, and every invocation returns the join of the sources as  *)
(* they were when the entry was computed, also after a source changed.     *)
(***************************************************************************)
C6_ComputedOnce ==
    /\ [][cache # None => (cache' = cache /\ snapshot' = snapshot)]_vars
    /\ [](pc = "sidebar" => df = JoinOfLoadable(snapshot))

\* A source changed after the merge and the stale table was returned.
C6_Witness ==
    /\ pc = "sidebar"
    /\ reads = <<>>
    /\ disk # snapshot
    /\ df # JoinOfLoadable(disk)

(***************************************************************************)
(* C7: a melt call whose value-column list names a column absent from      *)
(* df_region fails with a KeyError naming the absent columns and yields    *)
(* no long-form table; no chart is rendered from a table lacking a column  *)
(* it uses.                                                                *)
(***************************************************************************)
C7_MissingColumn ==
    /\ [][(MeltCall # <<>> /\ MissingVars(df_region, MeltCall) # <<>>) =>
            /\ error' # None
            /\ error'.kind = "KeyError"
            /\ error'.names = MissingVars(df_region, MeltCall)
            /\ melts' = melts
            /\ charts' = charts
            /\ pc' = "idle"]_vars
    /\ [](/\ \A n \in DOMAIN melts : Range(melts[n].value_vars) \subseteq Columns(df_region)
          /\ \A n \in DOMAIN charts : Range(charts[n].uses) \subseteq Columns(df_region))

\* A melt failed on a column whose source had been skipped in the merge.
C7_Witness ==
    /\ error # None
    /\ error.at = "melt"
    /\ diagnostics # <<>>
    /\ Len(error.names) = 2
    /\ melts # <<>>

(***************************************************************************)
(* C8: melt outputs rows x columns rows, and every (row, requested column) *)
(* cell of its input appears exactly once, rows with the same identifier   *)
(* included.                                                               *)
(***************************************************************************)
C8_CellBijection ==
    \A m \in DOMAIN melts :
        LET vv  == melts[m].value_vars
            out == melts[m].rows
        IN  /\ Len(out) = Len(df_region.rows) * Len(vv)
            /\ \A r \in DOMAIN df_region.rows : \A v \in DOMAIN vv :
                  Cardinality({n \in DOMAIN out : out[n] = Cell(df_region, r, vv[v])})
                    = Cardinality({rv \in (DOMAIN df_region.rows) \X (DOMAIN vv) :
                                     Cell(df_region, rv[1], vv[rv[2]]) = Cell(df_region, r, vv[v])})

\* A melt over a view in which two rows share their Date.
C8_Witness ==
    /\ melts # <<>>
    /\ \E a, b \in DOMAIN df_region.rows :
          a # b /\ df_region.rows[a].key[1] = df_region.rows[b].key[1]
    /\ \E n \in DOMAIN melts[1].rows : melts[1].rows[n].value = NaN

(***************************************************************************)
(* C9: for every Key of a loadable source, the number of rows of the       *)
(* returned table with that Key is the product of the numbers of rows the  *)
(* loadable sources holding it have for it.                                *)
(***************************************************************************)
C9_FanOut ==
    cache # None =>
        \A k \in SourceKeys(snapshot) : CountKey(cache.value, k) = FanOut(snapshot, k, 1)

\* Two sources with two rows each for one Key: four rows for it.
C9_Witness ==
    /\ cache # None
    /\ \E k \in KeySet(cache.value) : CountKey(cache.value, k) = 4

(***************************************************************************)
(* C10 as stated: melt's rows are grouped by identifier and, within one    *)
(* identifier, follow the value-column order of the call.                  *)
(***************************************************************************)
C10_GroupedByIdentifier ==
    \A m \in DOMAIN melts :
        LET vv  == melts[m].value_vars
            out == melts[m].rows
        IN  /\ \A a, b, c \in DOMAIN out :
                  (a < b /\ b < c /\ out[a].Date = out[c].Date) => out[b].Date = out[a].Date
            /\ \A a, b \in DOMAIN out :
                  (a < b /\ out[a].Date = out[b].Date) =>
                      VarIdx(vv, out[a].variable) <= VarIdx(vv, out[b].variable)

(***************************************************************************)
(* C10 amended: melt's rows are grouped by value column, the columns in    *)
(* the order given in the call, and within one value column they follow    *)
(* the row order of the input table; the sequence is a function of the     *)
(* table and the arguments.                                                *)
(***************************************************************************)
C10_GroupedByColumn ==
    \A m \in DOMAIN melts :
        LET vv  == melts[m].value_vars
            out == melts[m].rows
            N   == Len(df_region.rows)
        IN  /\ Len(out) = N * Len(vv)
            /\ \A v \in DOMAIN vv : \A r \in DOMAIN df_region.rows :
                  out[(v - 1) * N + r] = Cell(df_region, r, vv[v])

\* A melt over a view with two different dates: identifiers interleave.
C10_Witness ==
    /\ melts # <<>>
    /\ \E a, b \in DOMAIN df_region.rows :
          df_region.rows[a].key[1] # df_region.rows[b].key[1]

====
